---- MODULE Spec2Model ----
(***************************************************************************)
(* Model of the dragon tokenizer (src/src/lexer.rs), its recursive-descent *)
(* validator (src/src/parser.rs) and the driver (src/src/main.rs).         *)
(* Bytes are their integer values; a string is a sequence of bytes.        *)
(***************************************************************************)
EXTENDS Integers, Sequences, FiniteSets, TLC

VARIABLES fileExists, file, debugEnv, pc, cursor, lexTokens, state, tokens,
          value, idx, scanResult, curr_token, curr_token_pos, ppc, presult,
          pulled, calls, out

vars == <<fileExists, file, debugEnv, pc, cursor, lexTokens, state, tokens,
          value, idx, scanResult, curr_token, curr_token_pos, ppc, presult,
          pulled, calls, out>>

lexVars == <<cursor, lexTokens, state, tokens, value, idx, scanResult>>
parserVars == <<curr_token, curr_token_pos, ppc, presult, pulled, calls>>
inputVars == <<fileExists, file, debugEnv>>

----------------------------------------------------------------------------
(* Bounds and inputs *)

MaxLen == 4
MaxTokens == 4

\* 'a' '1' ';' '<' ' ' '\n' '#'
Alphabet == {97, 49, 59, 60, 32, 10, 35}

BoundedSeq(S, n) == UNION {[1..k -> S] : k \in 0..n}

\* "abc;123;"
BufAbc123 == <<97, 98, 99, 59, 49, 50, 51, 59>>
\* "ab12 <> cd"
BufAb12 == <<97, 98, 49, 50, 32, 60, 62, 32, 99, 100>>
\* "x1 < y2"
BufX1Y2 == <<120, 49, 32, 60, 32, 121, 50>>
\* "9z"
Buf9z == <<57, 122>>
\* "a<> "
BufALtGt == <<97, 60, 62, 32>>

Examples == {BufAbc123, BufAb12, BufX1Y2, Buf9z, BufALtGt}

Buffers == BoundedSeq(Alphabet, MaxLen) \cup Examples

----------------------------------------------------------------------------
(* Tokens *)

Symbol == {"Identifier", "Number", "Ponctuation", "Operator", "Assign"}

Token(k, v) == [key |-> k, value |-> v]

\* Option::None of Option<&Token>
NoToken == [key |-> "None", value |-> <<>>]

----------------------------------------------------------------------------
(* Byte classification *)

is_ponctuation(ch) == ch = 59

is_digit(ch) == ch >= 48 /\ ch <= 57

is_letter(ch) == (ch >= 65 /\ ch <= 90) \/ (ch >= 97 /\ ch <= 122)

\* the operator range starting one byte early, at ';'
is_operator_from_semicolon(ch) == ch = 33 \/ (ch >= 59 /\ ch <= 62)

is_operator(ch) == ch = 33 \/ (ch >= 60 /\ ch <= 62)

is_new_line(ch) == ch = 10

\* the whitespace class with the newline byte in it
is_whitespace_like_with_newline(ch) == ch \in {9, 10, 12, 13, 32}

is_whitespace_like(ch) == ch \in {9, 12, 13, 32}

----------------------------------------------------------------------------
(* Lexer *)

NewCursor == [line |-> 1, column |-> 1]

\* refresh_cursor with the accumulator pushing newline bytes as well
refresh_cursor_push_newline(cur, val, ch) ==
    IF ~is_whitespace_like(ch) /\ ~is_new_line(ch)
    THEN [cursor |-> [line |-> cur.line, column |-> cur.column + 1],
          value |-> Append(val, ch)]
    ELSE IF is_new_line(ch)
    THEN [cursor |-> [line |-> cur.line + 1, column |-> 0],
          value |-> Append(val, ch)]
    ELSE [cursor |-> cur, value |-> val]

\* refresh_cursor advancing the column on whitespace-like bytes too
refresh_cursor_count_whitespace(cur, val, ch) ==
    IF ~is_new_line(ch)
    THEN [cursor |-> [line |-> cur.line, column |-> cur.column + 1],
          value |-> IF is_whitespace_like(ch) THEN val ELSE Append(val, ch)]
    ELSE [cursor |-> [line |-> cur.line + 1, column |-> 0], value |-> val]

\* char::from_u32(ch as u32) is the character whose code point is the byte, so
\* the accumulator is kept as the sequence of those code points
refresh_cursor(cur, val, ch) ==
    IF ~is_whitespace_like(ch) /\ ~is_new_line(ch)
    THEN [cursor |-> [line |-> cur.line, column |-> cur.column + 1],
          value |-> Append(val, ch)]
    ELSE IF is_new_line(ch)
    THEN [cursor |-> [line |-> cur.line + 1, column |-> 0],
          value |-> val]
    ELSE [cursor |-> cur, value |-> val]

Stay(st, val) == [state |-> st, push |-> <<>>, value |-> val, err |-> "", debug |-> FALSE]

\* a push that moves to the state number of the arm's NOTE (2, 4, 6, 7)
Emit_to_noted_state(k, val) ==
    [state |-> 2, push |-> <<Token(k, val)>>, value |-> <<>>, err |-> "", debug |-> FALSE]

\* a push that leaves the accumulator as it is
Emit_keep_value(k, val) ==
    [state |-> 0, push |-> <<Token(k, val)>>, value |-> val, err |-> "", debug |-> FALSE]

Emit(k, val) == [state |-> 0, push |-> <<Token(k, val)>>, value |-> <<>>, err |-> "", debug |-> FALSE]

Fail(st, val, msg, dbg) == [state |-> st, push |-> <<>>, value |-> val, err |-> msg, debug |-> dbg]

\* the body of `match state` for one byte, value already refreshed
nchar_match(st, ch, val) ==
    IF st = 0 THEN
        IF is_whitespace_like(ch) \/ is_new_line(ch) THEN Stay(0, val)
        ELSE IF is_letter(ch) THEN Stay(1, val)
        ELSE IF is_digit(ch) THEN Stay(3, val)
        ELSE IF is_operator(ch) THEN Stay(5, val)
        ELSE IF is_ponctuation(ch) THEN Emit("Ponctuation", val)
        ELSE Fail(st, val, "Lexer: Unrecognized symbol", TRUE)
    ELSE IF st = 1 THEN
        IF is_letter(ch) \/ is_digit(ch) THEN Stay(1, val)
        ELSE IF is_whitespace_like(ch) \/ is_operator(ch) THEN Emit("Identifier", val)
        ELSE IF is_ponctuation(ch) THEN Emit("Ponctuation", val)
        ELSE Fail(st, val, "Lexer: Malformed identifier", TRUE)
    ELSE IF st = 3 THEN
        IF is_digit(ch) THEN Stay(3, val)
        ELSE IF ~is_letter(ch) THEN Emit("Number", val)
        ELSE IF is_ponctuation(ch) THEN Emit("Ponctuation", val)
        ELSE Fail(st, val, "Lexer: Unrecognized number", TRUE)
    ELSE IF st = 5 THEN
        IF is_operator(ch) THEN Emit("Operator", val)
        ELSE IF ~is_operator(ch) THEN Emit("Assign", val)
        ELSE IF is_ponctuation(ch) THEN Emit("Ponctuation", val)
        ELSE Stay(5, val)
    ELSE Fail(st, val, "Lexer: Invalid state", FALSE)

\* end of buffer with the pending run flushed as a token
end_of_buffer_flush(toks, st, val) ==
    IF st = 1 THEN Append(toks, Token("Identifier", val))
    ELSE IF st = 3 THEN Append(toks, Token("Number", val))
    ELSE IF st = 5 THEN Append(toks, Token("Assign", val))
    ELSE toks

\* `self.tokens = tokens` after the loop: state and value are discarded
end_of_buffer(toks, st, val) == toks

\* a failing return that stores the tokens pushed so far
stream_after_error_partial(stored, toks) == toks

\* self.tokens when nchar returns Err: the assignment after the loop is not reached
stream_after_error(stored, toks) == stored

\* Lexer::advance
advance(toks, pos) == IF pos < Len(toks) THEN toks[pos + 1] ELSE NoToken

DebugLine(cur) == [stream |-> "stdout", text |-> "DEBUG", line |-> cur.line, column |-> cur.column]

Line(s, t) == [stream |-> s, text |-> t, line |-> 0, column |-> 0]

\* scanner: open and read the file, enter nchar
Scanner ==
    /\ pc = "scanner"
    /\ IF fileExists
       THEN /\ pc' = "nchar"
            /\ state' = 0
            /\ tokens' = <<>>
            /\ value' = <<>>
            /\ idx' = 0
            /\ UNCHANGED scanResult
       ELSE /\ pc' = "scanned"
            /\ scanResult' = "No such file or directory"
            /\ UNCHANGED <<state, tokens, value, idx>>
    /\ UNCHANGED <<inputVars, cursor, lexTokens, parserVars, out>>

\* one iteration of `for &ch in buffer.iter()`
NcharStep ==
    /\ pc = "nchar"
    /\ idx < Len(file)
    /\ LET ch == file[idx + 1]
           r == refresh_cursor(cursor, value, ch)
           m == nchar_match(state, ch, r.value)
       IN /\ idx' = idx + 1
          /\ cursor' = r.cursor
          /\ state' = m.state
          /\ value' = m.value
          /\ tokens' = tokens \o m.push
          /\ IF m.err # ""
             THEN /\ scanResult' = m.err
                  /\ pc' = "scanned"
                  /\ out' = IF m.debug THEN Append(out, DebugLine(r.cursor)) ELSE out
             ELSE UNCHANGED <<scanResult, pc, out>>
          /\ lexTokens' = IF m.err # ""
                          THEN stream_after_error(lexTokens, tokens \o m.push)
                          ELSE lexTokens
    /\ UNCHANGED <<inputVars, parserVars>>

\* after the loop: store the stream, optional dump, Ok(())
NcharFinish ==
    /\ pc = "nchar"
    /\ idx = Len(file)
    /\ lexTokens' = end_of_buffer(tokens, state, value)
    /\ scanResult' = "Ok"
    /\ out' = IF debugEnv THEN Append(out, Line("stdout", "tokens")) ELSE out
    /\ pc' = "scanned"
    /\ UNCHANGED <<inputVars, cursor, state, tokens, value, idx, parserVars>>

----------------------------------------------------------------------------
(* Parser *)

OkResult == [ok |-> TRUE, msg |-> "", token |-> NoToken]

ErrResult(m, tok) == [ok |-> FALSE, msg |-> m, token |-> tok]

Pending == [ok |-> FALSE, msg |-> "pending", token |-> NoToken]

TermExpected == "Parser: token Identifier or Number expected"

OperatorExpected == "Parser: token Operator expected"

\* the kind test of t accepting Identifier alone
is_term_identifier_only(k) == k = "Identifier"

\* the kind test of t accepting any kind but Ponctuation
is_term_lax(k) == k # "Ponctuation"

\* the kind test of t
is_term(k) == ~(k # "Identifier" /\ k # "Number")

\* op that never fails
op_always_ok(token_t, cur) == OkResult

\* Parser::op
op(token_t, cur) ==
    IF token_t # "Operator" THEN ErrResult(OperatorExpected, cur) ELSE OkResult

\* main after scanner returns: report a lex error, Parser::new, enter e
MainAfterScan ==
    /\ pc = "scanned"
    /\ out' = IF scanResult # "Ok" THEN Append(out, Line("stderr", scanResult)) ELSE out
    /\ curr_token' = NoToken
    /\ curr_token_pos' = 0
    /\ presult' = Pending
    /\ pulled' = <<>>
    /\ calls' = <<"e">>
    /\ ppc' = "t"
    /\ pc' = "parse"
    /\ UNCHANGED <<inputVars, lexVars>>

\* Parser::t, called from e or from eline; eline follows on success
ParserT ==
    /\ pc = "parse"
    /\ ppc = "t"
    /\ LET tok == advance(lexTokens, curr_token_pos)
       IN /\ curr_token' = tok
          /\ curr_token_pos' = curr_token_pos + 1
          /\ pulled' = Append(pulled, curr_token_pos)
          /\ calls' = Append(calls, "t")
          /\ IF tok # NoToken /\ ~is_term(tok.key)
             THEN /\ presult' = ErrResult(TermExpected, tok)
                  /\ ppc' = "done"
             ELSE /\ ppc' = "eline"
                  /\ UNCHANGED presult
    /\ UNCHANGED <<inputVars, lexVars, pc, out>>

\* Parser::eline up to its call of t, or to its return
ParserEline ==
    /\ pc = "parse"
    /\ ppc = "eline"
    /\ LET tok == advance(lexTokens, curr_token_pos)
       IN /\ curr_token' = tok
          /\ curr_token_pos' = curr_token_pos + 1
          /\ pulled' = Append(pulled, curr_token_pos)
          /\ IF tok # NoToken /\ tok.key # "Operator"
             THEN /\ calls' = calls \o <<"eline", "op">>
                  /\ IF op(tok.key, tok).ok
                     THEN /\ ppc' = "t"
                          /\ UNCHANGED presult
                     ELSE /\ presult' = op(tok.key, tok)
                          /\ ppc' = "done"
             ELSE /\ calls' = Append(calls, "eline")
                  /\ presult' = OkResult
                  /\ ppc' = "done"
    /\ UNCHANGED <<inputVars, lexVars, pc, out>>

\* main: match parser.e()
MainReport ==
    /\ pc = "parse"
    /\ ppc = "done"
    /\ out' = IF presult.ok
              THEN Append(out, Line("stdout", "Parsing Success"))
              ELSE Append(out, Line("stderr", "Parser: syntatic analysis error"))
    /\ pc' = "exit"
    /\ UNCHANGED <<inputVars, lexVars, parserVars>>

----------------------------------------------------------------------------
(* End-to-end specification: main on an input file *)

Init ==
    /\ fileExists \in BOOLEAN
    /\ file \in (IF fileExists THEN Buffers ELSE {<<>>})
    /\ debugEnv \in BOOLEAN
    /\ pc = "scanner"
    /\ cursor = NewCursor
    /\ lexTokens = <<>>
    /\ state = 0
    /\ tokens = <<>>
    /\ value = <<>>
    /\ idx = 0
    /\ scanResult = "none"
    /\ curr_token = NoToken
    /\ curr_token_pos = 0
    /\ ppc = "none"
    /\ presult = Pending
    /\ pulled = <<>>
    /\ calls = <<>>
    /\ out = <<>>

Next ==
    \/ Scanner
    \/ NcharStep
    \/ NcharFinish
    \/ MainAfterScan
    \/ ParserT
    \/ ParserEline
    \/ MainReport

Spec == Init /\ [][Next]_vars

----------------------------------------------------------------------------
(* Validator specification: main on input files that scan to every kind    *)
(* sequence of at most MaxTokens tokens.                                    *)

\* bytes that scan to one token of kind k, in automaton state 0 before and after
Lexeme(k) ==
    CASE k = "Identifier" -> <<97, 32>>
      [] k = "Number" -> <<49, 32>>
      [] k = "Ponctuation" -> <<59>>
      [] k = "Operator" -> <<60, 62>>
      [] k = "Assign" -> <<60, 32>>

RECURSIVE Unlex(_)
Unlex(ks) == IF ks = <<>> THEN <<>> ELSE Lexeme(Head(ks)) \o Unlex(Tail(ks))

StreamBuffers == {Unlex(ks) : ks \in BoundedSeq(Symbol, MaxTokens)}

ParserInit ==
    /\ fileExists = TRUE
    /\ file \in StreamBuffers
    /\ debugEnv \in BOOLEAN
    /\ pc = "scanner"
    /\ cursor = NewCursor
    /\ lexTokens = <<>>
    /\ state = 0
    /\ tokens = <<>>
    /\ value = <<>>
    /\ idx = 0
    /\ scanResult = "none"
    /\ curr_token = NoToken
    /\ curr_token_pos = 0
    /\ ppc = "none"
    /\ presult = Pending
    /\ pulled = <<>>
    /\ calls = <<>>
    /\ out = <<>>

ParserSpec == ParserInit /\ [][Next]_vars

----------------------------------------------------------------------------
(* Vocabulary of the properties *)

Kinds(toks) == [i \in 1..Len(toks) |-> toks[i].key]

RECURSIVE Concat(_)
Concat(toks) == IF toks = <<>> THEN <<>> ELSE Head(toks).value \o Concat(Tail(toks))

\* the buffer with whitespace-like and newline bytes removed
Strip(buf) == SelectSeq(buf, LAMBDA b : b \notin {9, 12, 13, 32, 10})

Letters == (65..90) \cup (97..122)
Digits == 48..57
TermKinds == {"Identifier", "Number"}

ScanOk == scanResult = "Ok"
LexErrors == {"Lexer: Unrecognized symbol", "Lexer: Malformed identifier",
              "Lexer: Unrecognized number", "Lexer: Invalid state"}
ScanFailed == scanResult \notin {"none", "Ok"}
ScanReturned == pc \in {"scanned", "parse", "exit"}

Id(v) == [key |-> "Identifier", value |-> v]
Num(v) == [key |-> "Number", value |-> v]
Punct(v) == [key |-> "Ponctuation", value |-> v]
Oper(v) == [key |-> "Operator", value |-> v]
Asgn(v) == [key |-> "Assign", value |-> v]

----------------------------------------------------------------------------
(* C1 *)

C1_Step ==
    (pc = "nchar" /\ idx < Len(file) /\ state \in {1, 3} /\ file[idx + 1] = 59)
    => tokens' = tokens \o << [key |-> IF state = 1 THEN "Identifier" ELSE "Number",
                               value |-> value],
                              Punct(<<59>>) >>

C1_Example ==
    (ScanReturned /\ fileExists /\ file = BufAbc123)
    => /\ ScanOk
       /\ lexTokens = << Id(<<97, 98, 99>>), Punct(<<59>>),
                         Num(<<49, 50, 51>>), Punct(<<59>>) >>

\* C1: a ';' that ends an identifier or number run makes the scan emit the
\* Identifier/Number token holding only the run, then a one-byte Punctuation
\* token ";"; scanning "abc;123;" yields [Identifier("abc"), Punctuation(";"),
\* Number("123"), Punctuation(";")].
C1_SemicolonEndsRunWithTwoTokens == [][C1_Step /\ C1_Example']_vars

----------------------------------------------------------------------------
(* C2 *)

\* C2 as stated: scanning "ab12 <> cd" yields [Identifier("ab12"),
\* Operator("<>"), Identifier("cd")] and scanning "x1 < y2" yields
\* [Identifier("x1"), Assign("<"), Identifier("y2")]; the identifier that ends
\* the buffer is the last token of the stream.
C2_TrailingIdentifierPresent ==
    (ScanReturned /\ fileExists)
    => /\ file = BufAb12 =>
            /\ ScanOk
            /\ lexTokens = << Id(<<97, 98, 49, 50>>), Oper(<<60, 62>>), Id(<<99, 100>>) >>
       /\ file = BufX1Y2 =>
            /\ ScanOk
            /\ lexTokens = << Id(<<120, 49>>), Asgn(<<60>>), Id(<<121, 50>>) >>

\* C2 amended: scanning "ab12 <> cd" yields exactly [Identifier("ab12"),
\* Operator("<>")] and scanning "x1 < y2" yields exactly [Identifier("x1"),
\* Assign("<")]; the identifier that ends the buffer is not in the stream.
C2_TrailingIdentifierDropped ==
    (ScanReturned /\ fileExists)
    => /\ file = BufAb12 =>
            /\ ScanOk
            /\ lexTokens = << Id(<<97, 98, 49, 50>>), Oper(<<60, 62>>) >>
       /\ file = BufX1Y2 =>
            /\ ScanOk
            /\ lexTokens = << Id(<<120, 49>>), Asgn(<<60>>) >>

C2_Witness ==
    /\ pc = "scanned" /\ fileExists /\ file = BufAb12 /\ ScanOk
    /\ state = 1 /\ value = <<99, 100>> /\ Len(lexTokens) = 2

----------------------------------------------------------------------------
(* C3 *)

LettersDigitsFromLetter(buf) ==
    /\ buf # <<>>
    /\ buf[1] \in Letters
    /\ \A i \in 1..Len(buf) : buf[i] \in Letters \cup Digits

C3_Step ==
    (pc = "nchar" /\ idx = Len(file))
    => /\ scanResult' = "Ok"
       /\ state \in {1, 3, 5} => (value # <<>> /\ lexTokens' = tokens)

C3_Final ==
    (ScanReturned /\ fileExists /\ (file = <<>> \/ LettersDigitsFromLetter(file)))
    => (ScanOk /\ lexTokens = <<>>)

\* C3: when the buffer ends with the automaton in S1, S3 or S5 the accumulated
\* text is non-empty, the scan succeeds and no token is emitted for that text;
\* a buffer of letters and digits starting with a letter, and the empty
\* buffer, yield the empty stream.
C3_EndOfBufferDropsPendingRun == [][C3_Step /\ C3_Final']_vars

C3_Witness ==
    /\ pc = "scanned" /\ fileExists /\ ScanOk /\ state = 1
    /\ Len(file) >= 2 /\ value = file /\ lexTokens = <<>>

----------------------------------------------------------------------------
(* C4 *)

LastOut == out[Len(out)]

\* C4: a lex failure reports the 1-based line/column of the offending byte:
\* on a first-line buffer without whitespace the column is the 1-based index
\* of the failing byte; "9z" fails with UnrecognizedNumber at column 2 and "#"
\* fails with UnrecognizedSymbol at column 1.
C4_ErrorColumnIsByteIndex ==
    (pc = "scanned" /\ fileExists /\ scanResult \in LexErrors)
    => /\ Strip(file) = file =>
            (out # <<>> /\ LastOut.text = "DEBUG"
             /\ LastOut.line = 1 /\ LastOut.column = idx)
       /\ file = Buf9z =>
            (scanResult = "Lexer: Unrecognized number" /\ LastOut.column = 2)
       /\ file = <<35>> =>
            (scanResult = "Lexer: Unrecognized symbol" /\ LastOut.column = 1)

----------------------------------------------------------------------------
(* C5 *)

\* position i (from 1) of a stream breaks E -> T E', E' -> OP T E' | eps
Violates(ks, i) ==
    IF i % 2 = 1 THEN ks[i] \notin TermKinds ELSE ks[i] # "Operator"

HasViolation(ks) == \E i \in 1..Len(ks) : Violates(ks, i)

FirstViolation(ks) ==
    CHOOSE i \in 1..Len(ks) : Violates(ks, i) /\ \A j \in 1..(i - 1) : ~Violates(ks, j)

\* C5: every stream holding, at some position, a token that is not
\* Identifier/Number where a term is required or not Operator where an
\* operator is required is rejected by Parser::e, with the error of the first
\* such position.
C5_RejectsEveryNonConformingStream ==
    (ppc = "done" /\ ScanOk /\ HasViolation(Kinds(lexTokens)))
    => LET i == FirstViolation(Kinds(lexTokens))
       IN /\ ~presult.ok
          /\ presult.token = lexTokens[i]
          /\ presult.msg = IF i % 2 = 1 THEN "Parser: token Identifier or Number expected"
                                        ELSE "Parser: token Operator expected"

----------------------------------------------------------------------------
(* C6 *)

Alternating(ks) == \A i \in 1..Len(ks) : ~Violates(ks, i)

----------------------------------------------------------------------------
(* C7 *)

C7_Step ==
    (pc = "parse" /\ ppc = "eline" /\ curr_token_pos < Len(lexTokens)
     /\ lexTokens[curr_token_pos + 1].key # "Operator")
    => /\ presult' = [ok |-> FALSE, msg |-> "Parser: token Operator expected",
                      token |-> lexTokens[curr_token_pos + 1]]
       /\ ppc' = "done"
       /\ pulled' = Append(pulled, curr_token_pos)

C7_NoPullAfterFailure == (ppc = "done") => (pulled' = pulled /\ presult' = presult)

C7_Example ==
    (ppc = "done" /\ ScanOk /\ Len(lexTokens) >= 2
     /\ lexTokens[1].key = "Identifier" /\ lexTokens[2].key = "Identifier")
    => /\ presult = [ok |-> FALSE, msg |-> "Parser: token Operator expected",
                     token |-> lexTokens[2]]
       /\ pulled = <<0, 1>>

\* C7: when the token pulled by E' is present and not an Operator, validation
\* fails with the operator-expected error carrying exactly that token;
\* [Identifier, Identifier] fails so with the second token and no later token
\* is pulled.
C7_NonOperatorAfterTermFails ==
    [][C7_Step /\ C7_NoPullAfterFailure /\ C7_Example']_vars

C7_Witness ==
    /\ ppc = "done" /\ ScanOk
    /\ Kinds(lexTokens) = <<"Identifier", "Identifier", "Operator">>
    /\ presult.msg = "Parser: token Operator expected"
    /\ presult.token = lexTokens[2]
    /\ pulled = <<0, 1>>

----------------------------------------------------------------------------
(* C8 *)

C8_Step ==
    (pc = "parse" /\ ppc = "t" /\ curr_token_pos < Len(lexTokens)
     /\ lexTokens[curr_token_pos + 1].key \notin TermKinds)
    => /\ presult' = [ok |-> FALSE, msg |-> "Parser: token Identifier or Number expected",
                      token |-> lexTokens[curr_token_pos + 1]]
       /\ ppc' = "done"
       /\ calls' = Append(calls, "t")

C8_NoCallAfterFailure == (ppc = "done") => (calls' = calls)

C8_FirstToken ==
    (ppc = "done" /\ ScanOk /\ lexTokens # <<>> /\ lexTokens[1].key \notin TermKinds)
    => /\ presult = [ok |-> FALSE, msg |-> "Parser: token Identifier or Number expected",
                     token |-> lexTokens[1]]
       /\ calls = <<"e", "t">>

\* C8: when T pulls a present token that is neither Identifier nor Number,
\* validation fails with the term-expected error carrying exactly that token
\* and E' is never entered; every stream whose first token is not a term
\* fails this way.
C8_NonTermFailsBeforeEline ==
    [][C8_Step /\ C8_NoCallAfterFailure /\ C8_FirstToken']_vars

C8_Witness ==
    /\ ppc = "done" /\ ScanOk
    /\ Kinds(lexTokens) = <<"Assign", "Identifier">>
    /\ presult.msg = "Parser: token Identifier or Number expected"
    /\ presult.token = lexTokens[1]
    /\ calls = <<"e", "t">>

----------------------------------------------------------------------------
(* C9 *)

Printed(t) == \E i \in 1..Len(out) : out[i].text = t

\* C9: if lexical analysis fails, syntactic analysis is never started: the
\* validator is not invoked and no parse result, in particular no
\* "Parsing Success", is produced.
C9_NoParseAfterLexFailure ==
    (scanResult \in LexErrors) => (ppc = "none" /\ calls = <<>> /\ ~Printed("Parsing Success"))

----------------------------------------------------------------------------
(* C10 *)

\* C10: either the scan fails, or the concatenation of the token texts in
\* order equals the buffer with whitespace-like and newline bytes removed.
C10_ByteAccounting ==
    (ScanReturned /\ fileExists) => (ScanFailed \/ Concat(lexTokens) = Strip(file))

\* C10 amended: either the scan fails, or the concatenation of the token
\* texts in order, followed by the run still accumulated when the buffer ends
\* (which gets no token), equals the buffer with whitespace-like and newline
\* bytes removed; the run is empty exactly when the scan ends in S0.
C10_ByteAccountingUpToPendingRun ==
    (ScanReturned /\ fileExists /\ ~ScanFailed)
    => /\ Concat(lexTokens) \o value = Strip(file)
       /\ (state = 0) <=> (value = <<>>)

C10_Witness ==
    /\ pc = "scanned" /\ fileExists /\ ScanOk
    /\ Len(lexTokens) >= 2 /\ value # <<>> /\ Len(Strip(file)) < Len(file)

----------------------------------------------------------------------------
(* C11 *)

OperatorBytes == {33, 60, 61, 62}

\* C11: every Assign token of a returned stream has a text that is exactly
\* one operator-class byte; the byte that ended the run is not in the text.
C11_AssignTextIsOneOperatorByte ==
    (ScanReturned /\ ScanOk)
    => \A i \in 1..Len(lexTokens) :
          lexTokens[i].key = "Assign"
          => (Len(lexTokens[i].value) = 1 /\ lexTokens[i].value[1] \in OperatorBytes)

----------------------------------------------------------------------------
(* C12 *)

\* C12: every Number token of a returned stream has a text made only of one
\* or more digit bytes, whatever byte ended the digit run.
C12_NumberTextIsDigits ==
    (ScanReturned /\ ScanOk)
    => \A i \in 1..Len(lexTokens) :
          lexTokens[i].key = "Number"
          => /\ lexTokens[i].value # <<>>
             /\ \A j \in 1..Len(lexTokens[i].value) : lexTokens[i].value[j] \in Digits

----------------------------------------------------------------------------
(* C13 *)

C13_Step ==
    (pc = "nchar" /\ idx < Len(file) /\ state = 1 /\ file[idx + 1] \in OperatorBytes)
    => /\ tokens' = Append(tokens, Id(value))
       /\ \A j \in 1..Len(value) : value[j] \in Letters \cup Digits
       /\ state' = 5
       /\ value' = <<file[idx + 1]>>

C13_Example ==
    (ScanReturned /\ fileExists /\ file = BufALtGt)
    => (ScanOk /\ lexTokens = << Id(<<97>>), Oper(<<60, 62>>) >>)

\* C13: when an operator byte ends an identifier run, the Identifier token
\* holds only the letter and the letters/digits after it, and the operator
\* byte then starts an operator run as in S0; scanning "a<> " yields
\* [Identifier("a"), Operator("<>")].
C13_OperatorByteEndsIdentifier == [][C13_Step /\ C13_Example']_vars

----------------------------------------------------------------------------
(* C14 *)

\* C14: the automaton state is 0, 1, 3 or 5 at the start of every loop
\* iteration, for every buffer, and the scan never fails with "Lexer: Invalid
\* state".
C14_StateIsValid ==
    /\ state \in {0, 1, 3, 5}
    /\ scanResult # "Lexer: Invalid state"

C14_Witness ==
    /\ pc = "nchar" /\ idx >= 3 /\ idx < Len(file)
    /\ state = 5 /\ Len(tokens) >= 2

----------------------------------------------------------------------------
(* C15 *)

LastToken(toks) == toks[Len(toks)]

C15_Step ==
    (pc = "nchar" /\ idx < Len(file) /\ state = 5)
    => /\ state' = 0
       /\ pc' = "nchar"
       /\ scanResult' = scanResult
       /\ Len(tokens') = Len(tokens) + 1
       /\ SubSeq(tokens', 1, Len(tokens)) = tokens
       /\ file[idx + 1] = 59 => LastToken(tokens').key = "Assign"
       /\ file[idx + 1] \in OperatorBytes =>
             /\ LastToken(tokens') = Oper(<<file[idx], file[idx + 1]>>)
             /\ file[idx] \in OperatorBytes

\* C15: in S5 a following ';' makes exactly one token, of kind Assign, and no
\* Punctuation token; a following operator byte makes exactly one Operator
\* token whose text is exactly the two operator bytes; S5 never fails and is
\* back in S0 after one byte.
C15_OperatorRunEndsAfterOneByte == [][C15_Step]_vars

C15_Witness ==
    /\ pc = "nchar" /\ idx >= 2 /\ state = 0
    /\ file[idx - 1] \in OperatorBytes /\ file[idx] = 59
    /\ tokens # <<>> /\ LastToken(tokens).key = "Assign"
    /\ (idx = 2 \/ file[idx - 2] \notin OperatorBytes)

----------------------------------------------------------------------------
(* C16 *)

C16_Step ==
    (pc = "nchar" /\ idx < Len(file))
    => LET ch == file[idx + 1]
       IN /\ cursor'.line >= cursor.line
          /\ cursor'.line = cursor.line => cursor'.column >= cursor.column
          /\ IF ch = 10
             THEN cursor' = [line |-> cursor.line + 1, column |-> 0]
             ELSE IF ch \in {9, 12, 13, 32}
             THEN cursor' = cursor
             ELSE cursor' = [line |-> cursor.line, column |-> cursor.column + 1]

C16_OnlyBytesMove == (pc # "nchar") => (cursor' = cursor)

\* C16: during one scan, after each consumed byte the line is not below its
\* previous value and, when the line is unchanged, neither is the column; a
\* newline adds one to the line and sets the column to 0, a whitespace-like
\* byte leaves the Cursor as it is, any other byte adds one to the column.
C16_CursorMonotone == [][C16_Step /\ C16_OnlyBytesMove]_vars

C16_Witness ==
    /\ pc = "nchar" /\ idx = 4
    /\ file[1] = 97 /\ file[2] = 32 /\ file[3] = 10 /\ file[4] = 49
    /\ cursor = [line |-> 2, column |-> 1]

----------------------------------------------------------------------------
(* C17 *)

IsPrefix(a, b) == Len(a) <= Len(b) /\ SubSeq(b, 1, Len(a)) = a

FirstTwo(toks) == SubSeq(toks, 1, IF Len(toks) < 2 THEN Len(toks) ELSE 2)

\* the result as a function of the first two tokens of the stream
ResultOfFirstTwo(toks) ==
    IF Len(toks) >= 1 /\ toks[1].key \notin TermKinds
    THEN [ok |-> FALSE, msg |-> "Parser: token Identifier or Number expected",
          token |-> toks[1]]
    ELSE IF Len(toks) >= 2 /\ toks[2].key # "Operator"
    THEN [ok |-> FALSE, msg |-> "Parser: token Operator expected", token |-> toks[2]]
    ELSE [ok |-> TRUE, msg |-> "", token |-> [key |-> "None", value |-> <<>>]]

----------------------------------------------------------------------------
(* C18 *)

\* C18: a scan that fails with a lex error leaves the stored stream as it was
\* before the scan, empty for a fresh Lexer: tokens recognized before the
\* failing byte are not visible through Lexer::advance, and the validator
\* run on that Lexer sees an empty stream.
C18_FailedScanStoresNothing ==
    (scanResult \in LexErrors)
    => /\ lexTokens = <<>>
       /\ curr_token = [key |-> "None", value |-> <<>>]
       /\ ppc = "done" => (presult.ok /\ pulled = <<0, 1>>)

C18_Witness ==
    /\ scanResult \in LexErrors /\ Len(tokens) >= 2
    /\ pc = "parse" /\ ppc = "done" /\ presult.ok

----------------------------------------------------------------------------
(* C19 *)

C19_Step ==
    (pc = "nchar" /\ idx < Len(file) /\ file[idx + 1] = 10)
    => /\ state = 1 =>
             /\ scanResult' = "Lexer: Malformed identifier"
             /\ pc' = "scanned"
             /\ tokens' = tokens
       /\ state = 3 =>
             /\ scanResult' = scanResult
             /\ pc' = "nchar"
             /\ state' = 0
             /\ tokens' = Append(tokens, Num(value))
             /\ \A j \in 1..Len(value) : value[j] \in Digits
       /\ state = 0 =>
             /\ scanResult' = scanResult
             /\ pc' = "nchar"
             /\ state' = 0
             /\ tokens' = tokens
             /\ value' = value

\* C19: a newline byte right after an identifier run (S1) makes the scan fail
\* with MalformedIdentifier; right after a digit run (S3) it ends the run and
\* a Number token is emitted; in S0 it is consumed without a token.
C19_NewlineAfterRun == [][C19_Step]_vars

C19_Witness ==
    /\ pc = "scanned" /\ scanResult = "Lexer: Malformed identifier"
    /\ idx = 4 /\ file[4] = 10 /\ file[3] = 97
    /\ file[2] = 10 /\ file[1] = 49
    /\ tokens = <<Num(<<49>>)>>

----------------------------------------------------------------------------
(* C20 *)

C20_Prefix ==
    (pc = "nchar" \/ (ScanReturned /\ ScanOk))
    => /\ Concat(tokens) \o value = Strip(SubSeq(file, 1, idx))
       /\ state = 0 => value = <<>>
       /\ Len(tokens) <= idx

C20_Step ==
    (pc = "nchar" /\ idx < Len(file)) => Len(tokens') <= Len(tokens) + 1

\* C20: after every consumed byte of a scan that has not failed, the texts of
\* the tokens emitted so far followed by the pending accumulator are the
\* consumed prefix with whitespace-like and newline bytes removed; the
\* accumulator is empty whenever the automaton is in S0; each consumed byte
\* emits at most one token, so there are never more tokens than bytes consumed.
C20_PrefixAccounting == [][C20_Step /\ C20_Prefix']_vars

C20_Witness ==
    /\ pc = "nchar" /\ idx = 3 /\ idx < Len(file)
    /\ Len(tokens) = 1 /\ value # <<>> /\ state = 1
    /\ Len(Strip(SubSeq(file, 1, idx))) = 2

====
